---- MODULE Spec2Model ----
(***************************************************************************)
(* A model of the FFCC TensorFlow ops of src/python/ops.py.                *)
(*                                                                         *)
(* Every op is a pure function of its arguments.  Each specification below *)
(* draws the arguments of one op (or of one pipeline of ops) from a bounded*)
(* set in its initial states and applies the op in one action.             *)
(*                                                                         *)
(* Numbers.  The ops compute on float32 tensors; the model computes the    *)
(* same expressions in exact arithmetic:                                   *)
(*   - a rational is a pair <<num, den>> with den > 0;                     *)
(*   - a log-chroma value is an integer number of halves of ln 2 (channel  *)
(*     values are 0 or powers of two, so their logs are multiples of ln 2);*)
(*   - an angle is an integer number of 24ths of a turn, and sines and     *)
(*     cosines are numbers a + b*sqrt(3), kept as pairs <<a, b>> (grid     *)
(*     sizes divide 12, so every bin angle is a multiple of 30 degrees).   *)
(* Tensors are functions over their index ranges; a result carries a       *)
(* status field, "ok" or the error the op raised.                          *)
(***************************************************************************)
EXTENDS Integers, Sequences, FiniteSets

VARIABLES
    pc,                 \* which op runs next
    rgb, params,        \* arguments of compute_chroma_histogram; rgb also
                        \* the argument of local_absolute_deviation
    histogram,          \* its result
    x, bins,            \* arguments of splat_non_uniform
    resolution,         \* x and bins are whole multiples of 1 / resolution
    extended_features,  \* its result
    h,                  \* argument of softmax2
    uv, grid,           \* arguments of uv_to_pmf (grid: step_size, offset, n)
    pmf,                \* a PMF: result of softmax2 / uv_to_pmf, argument of bivariate_von_mises
    fit,                \* result of bivariate_von_mises: mu_idx, sigma_idx
    est,                \* result of idx_to_uv: mu, sigma
    rgb_edge            \* result of local_absolute_deviation

vars == <<pc, rgb, params, histogram, x, bins, resolution, extended_features, h, uv, grid,
          pmf, fit, est, rgb_edge>>

\* A variable that the running specification does not use.
NoValue == [status |-> "none"]

(***************************************************************************)
(* Arithmetic helpers.                                                     *)
(***************************************************************************)
Min2(a, b) == IF a <= b THEN a ELSE b

Max2(a, b) == IF a >= b THEN a ELSE b

Abs(a) == IF a >= 0 THEN a ELSE -a

\* Sum of f[k] over the finite set S of indices.
RECURSIVE SumOver(_, _)
SumOver(f, S) ==
    IF S = {} THEN 0
    ELSE LET k == CHOOSE e \in S : TRUE IN f[k] + SumOver(f, S \ {k})

\* The function f as a table of its values.  (TLC evaluates the defining
\* expression of a function at every application until the function has
\* been compared; the value is the same.)
Table(f) == IF f = f THEN f ELSE f

\* Equality of two rationals <<num, den>>, den > 0.
REq(p, q) == p[1] * q[2] = q[1] * p[2]

\* a / b < c / d for a, c >= 0 and b, d > 0, without forming a product:
\* the whole parts decide, or else the remainders, turned upside down.
RECURSIVE RationalLess(_, _, _, _)
RationalLess(a, b, c, d) ==
    IF a \div b # c \div d THEN a \div b < c \div d
    ELSE IF c % d = 0 THEN FALSE
    ELSE IF a % b = 0 THEN TRUE
    ELSE RationalLess(d, c % d, b, a % b)

RECURSIVE GCD(_, _)
GCD(a, b) == IF b = 0 THEN a ELSE GCD(b, a % b)

\* EPS = tf.constant(1e-9): the rational 1 / EPS_DEN.
EPS_DEN == 1000000000

EPS == <<1, EPS_DEN>>

\* c > EPS for an integer c (0 < EPS < 1).
GreaterEPS(c) == c >= 1

\* tf.math.maximum(EPS, s) for an integer s, as a rational.
MaximumEPS(s) == IF GreaterEPS(s) THEN <<s, 1>> ELSE EPS

\* tf.round: the nearest integer to a / b (b > 0), halves to the even one.
Round(a, b) ==
    LET q == a \div b
        r == a % b
    IN  IF 2 * r < b THEN q
        ELSE IF 2 * r > b THEN q + 1
        ELSE IF q % 2 = 0 THEN q ELSE q + 1

\* tf.math.floormod(a, n), n > 0.
FloorMod(a, n) == a % n

\* log2 of a channel value that is a power of two.
RECURSIVE Log2(_)
Log2(c) == IF c <= 1 THEN 0 ELSE 1 + Log2(c \div 2)

(***************************************************************************)
(* compute_chroma_histogram (and sub2ind, rgb_to_uv).                      *)
(*                                                                         *)
(* rgb is a batch of images, rgb[b][p] the pixel p of image b in row-major *)
(* order, a triple <<r, g, b>> of channel values.  params.first_bin and    *)
(* params.bin_size are in halves of ln 2.                                  *)
(***************************************************************************)
sub2ind(range, xx, yy) == yy * range + xx

\* tf.math.reduce_min(rgb, axis=3) > EPS
valid_pixels(p) == GreaterEPS(Min2(p[1], Min2(p[2], p[3])))

\* rgb_to_uv of one colour with all channels > EPS (tf.maximum(., EPS) leaves
\* it alone): <<u, v>> = <<log g - log r, log g - log b>>, in halves of ln 2.
rgb_to_uv(p) == <<2 * (Log2(p[2]) - Log2(p[1])), 2 * (Log2(p[2]) - Log2(p[3]))>>

\* floormod(round((uv - first_bin) / bin_size), nbins), per component
uv_bin_index(p, prm) ==
    LET c == rgb_to_uv(p)
    IN  <<FloorMod(Round(c[1] - prm.first_bin, prm.bin_size), prm.nbins),
          FloorMod(Round(c[2] - prm.first_bin, prm.bin_size), prm.nbins)>>

\* The pixels of the whole batch in row-major order (image after image).
RECURSIVE FlatPixels(_, _)
FlatPixels(batch, b) ==
    IF b > Len(batch) THEN <<>> ELSE batch[b] \o FlatPixels(batch, b + 1)

\* tf.gather_nd(rgb, tf.where(valid_pixels)): the valid pixels of the batch.
gather_valid(batch) == SelectSeq(FlatPixels(batch, 1), valid_pixels)

\* tf.math.bincount(indices, minlength, axis=-1) of one row of indices
bincount(indices, minlength) ==
    [k \in 0..(minlength - 1) |->
        Cardinality({i \in DOMAIN indices : indices[i] = k})]

compute_chroma_histogram(batch, prm) ==
    LET batch_size == Len(batch)
        nbins == prm.nbins
        flat == gather_valid(batch)
        total == Len(flat)
    IN  IF total % batch_size # 0
        THEN \* tf.reshape(., (batch_size, -1, 3)) cannot split the pixels evenly
             [status |-> "InvalidArgumentError"]
        ELSE
        LET per == total \div batch_size
            \* valid_colors[b]: row b of the reshaped tensor
            valid_colors == [b \in 1..batch_size |->
                                SubSeq(flat, (b - 1) * per + 1, b * per)]
            indices == Table([b \in 1..batch_size |->
                          [i \in 1..per |->
                              LET idx == uv_bin_index(valid_colors[b][i], prm)
                              IN  sub2ind(nbins, idx[2], idx[1])]])
            counts == Table([b \in 1..batch_size |->
                          bincount(indices[b], nbins * nbins)])
            \* reshape to [batch_size, nbins, nbins, 1]
            grid4 == Table([b \in 1..batch_size |-> [r \in 0..(nbins - 1) |->
                        [c \in 0..(nbins - 1) |-> counts[b][r * nbins + c]]]])
            \* reduce_sum over axes 1, 2, 3: shape [batch_size]
            sums == Table([b \in 1..batch_size |->
                        SumOver(counts[b], DOMAIN counts[b])])
            denom == Table([b \in 1..batch_size |-> MaximumEPS(sums[b])])
        IN  \* [batch_size, nbins, nbins, 1] / [batch_size] broadcasts the
            \* divisor along the last axis: the quotient has shape
            \* [batch_size, nbins, nbins, batch_size]
            [status |-> "ok",
             shape  |-> <<batch_size, nbins, nbins, batch_size>>,
             counts |-> grid4,
             val    |-> [b \in 1..batch_size |-> [r \in 0..(nbins - 1) |->
                          [c \in 0..(nbins - 1) |-> [ch \in 1..batch_size |->
                              <<grid4[b][r][c] * denom[ch][2], denom[ch][1]>>]]]]]

(***************************************************************************)
(* Specification of compute_chroma_histogram.                              *)
(***************************************************************************)
MaxBatch == 2

MaxPixels == 2

\* Pixels: one with a zero channel, and two valid ones of log-chroma
\* <<u, v>> = <<2, -2>> and <<-2, 0>> halves of ln 2.
Palette == {<<4, 0, 1>>, <<1, 2, 4>>, <<2, 1, 1>>}

\* first_bin = -ln 2, bin_size = ln 2, 3 bins; first_bin = 0, bin_size = 1.5 ln 2, 2 bins
ParamSet == {[first_bin |-> -2, bin_size |-> 2, nbins |-> 3],
             [first_bin |-> 0, bin_size |-> 3, nbins |-> 2]}

Batches ==
    UNION {[1..B -> [1..P -> Palette]] : B \in 1..MaxBatch, P \in 1..MaxPixels}

InitHist ==
    /\ pc = "compute_chroma_histogram"
    /\ rgb_edge = NoValue
    /\ resolution = NoValue
    /\ rgb \in Batches
    /\ params \in ParamSet
    /\ histogram = NoValue
    /\ x = NoValue /\ bins = NoValue /\ extended_features = NoValue
    /\ h = NoValue /\ uv = NoValue /\ grid = NoValue
    /\ pmf = NoValue /\ fit = NoValue /\ est = NoValue

ComputeChromaHistogram ==
    /\ pc = "compute_chroma_histogram"
    /\ histogram' = compute_chroma_histogram(rgb, params)
    /\ pc' = "done"
    /\ UNCHANGED <<rgb_edge, rgb, params, x, bins, resolution, extended_features, h, uv, grid,
                   pmf, fit, est>>

NextHist == ComputeChromaHistogram

SpecHist == InitHist /\ [][NextHist]_vars

\* The number of valid pixels of one image, and of those the number whose
\* toroidal bin indices are u-bin = i and v-bin = j.
ValidCount(img) == Cardinality({p \in DOMAIN img : valid_pixels(img[p])})

BinCount(img, prm, i, j) ==
    Cardinality({p \in DOMAIN img :
        valid_pixels(img[p]) /\ uv_bin_index(img[p], prm) = <<i, j>>})

HistDone == pc = "done" /\ histogram.status # "none"

HistCells == (0..(params.nbins - 1)) \X (0..(params.nbins - 1))

\* The sum of slice b, channel ch of a returned histogram, as a rational.
SliceSum(b, ch) ==
    <<SumOver([cell \in HistCells |-> histogram.val[b][cell[1]][cell[2]][ch][1]],
              HistCells),
      histogram.val[b][0][0][ch][2]>>

\* C1: the histogram slice of batch element b counts exactly the valid
\* pixels of image b, in every batch, whatever the numbers of valid pixels
\* of its images are.
C1_SliceCountsOwnImage ==
    HistDone =>
        /\ histogram.status = "ok"
        /\ \A b \in DOMAIN rgb : \A cell \in HistCells :
              histogram.counts[b][cell[1]][cell[2]]
                  = BinCount(rgb[b], params, cell[1], cell[2])

\* C2: the returned histogram has shape [batch, nbins, nbins, 1] and the
\* slice of every image with at least one valid pixel sums to 1.
C2_SliceSumsToOne ==
    HistDone =>
        /\ histogram.status = "ok"
        /\ histogram.shape = <<Len(rgb), params.nbins, params.nbins, 1>>
        /\ \A b \in DOMAIN rgb :
              ValidCount(rgb[b]) >= 1 => REq(SliceSum(b, 1), <<1, 1>>)

\* C3: rows are v-bins and columns are u-bins, so the valid pixels
\* with u-bin = i and v-bin = j are the ones counted in cells [row j, column i].
C3_RowIsV ==
    (HistDone /\ histogram.status = "ok") =>
        \A cell \in HistCells :
            SumOver([b \in DOMAIN rgb |-> histogram.counts[b][cell[2]][cell[1]]],
                    DOMAIN rgb)
              = SumOver([b \in DOMAIN rgb |->
                            BinCount(rgb[b], params, cell[1], cell[2])], DOMAIN rgb)

\* A histogram was returned for a batch holding a valid pixel whose u-bin
\* and v-bin differ.
C3_Witness ==
    /\ HistDone
    /\ histogram.status = "ok"
    /\ \E b \in DOMAIN rgb : \E p \in DOMAIN rgb[b] :
          /\ valid_pixels(rgb[b][p])
          /\ uv_bin_index(rgb[b][p], params)[1] # uv_bin_index(rgb[b][p], params)[2]

(***************************************************************************)
(* splat_non_uniform.                                                      *)
(*                                                                         *)
(* x is a batch of scalars (shape [batch_size, 1]) and bins a sorted       *)
(* vector.  Both are whole multiples of one unit, 1 / res: x[b] and bins[k]*)
(* hold the multiples.  With res = 1 the values are integers; with         *)
(* res = 2^30 they are multiples of 2^-30, about 0.93 * EPS, so that two   *)
(* bins can differ by less than EPS.  Both units are powers of two: the    *)
(* small multiples drawn, their differences and the distances to x are     *)
(* float32 values, so the op's subtractions are exact and two distances    *)
(* are equal in float32 exactly when they are equal here.  Clamping,       *)
(* argmin and the index arithmetic do not depend on the unit; the          *)
(* comparison with EPS does.  Bin indices are 0-based as in the source.    *)
(***************************************************************************)
BinAt(bs, k) == bs[k + 1]

RECURSIVE SeqMin(_)
SeqMin(s) == IF Len(s) = 1 THEN s[1] ELSE Min2(Head(s), SeqMin(Tail(s)))

RECURSIVE SeqMax(_)
SeqMax(s) == IF Len(s) = 1 THEN s[1] ELSE Max2(Head(s), SeqMax(Tail(s)))

\* tf.clip_by_value(x, reduce_min(bins), reduce_max(bins))
x_clamp(xv, bs) == Min2(Max2(xv, SeqMin(bs)), SeqMax(bs))

\* tf.math.argmin(tf.abs(bins - x_clamp)): the first bin at the least distance
nearest_bin(xv, bs) ==
    LET d(k) == Abs(BinAt(bs, k) - x_clamp(xv, bs))
    IN  CHOOSE k \in 0..(Len(bs) - 1) :
            /\ \A j \in 0..(Len(bs) - 1) : d(k) <= d(j)
            /\ \A j \in 0..(k - 1) : d(j) > d(k)

\* tf.minimum(nearest_bin, bin_num - tf.minimum(2, bin_num))
idx_lo(xv, bs) == Min2(nearest_bin(xv, bs), Len(bs) - Min2(2, Len(bs)))

idx_hi(xv, bs) == Min2(idx_lo(xv, bs) + 1, Len(bs) - 1)

\* high_bin_value - low_bin_value > EPS, for a gap of gap / res:
\* the branch tf.maximum(high_bin_value - low_bin_value, EPS) takes.
gap_exceeds_EPS(gap, res) == RationalLess(1, EPS_DEN, gap, res)

\* One row of the result: the weights num[k] / den for k in 0..bin_num-1.
\*   w_high = (x_clamp - low_bin_value) / max(high_bin_value - low_bin_value, EPS)
\*   w_low  = 1 - w_high
\* scattered to idx_hi and idx_lo, and the two dense tensors added.
splat_row(xv, bs, res) ==
    LET lo == idx_lo(xv, bs)
        hi == idx_hi(xv, bs)
        low_bin_value == BinAt(bs, lo)
        high_bin_value == BinAt(bs, hi)
        gap == high_bin_value - low_bin_value
        g == GCD(EPS_DEN, res)
        \* w_high = wh / den; divided by EPS it is
        \* ((x_clamp - low) / res) * EPS_DEN, in lowest terms of EPS_DEN / res
        w_high == IF gap_exceeds_EPS(gap, res)
                  THEN <<x_clamp(xv, bs) - low_bin_value, gap>>
                  ELSE <<(x_clamp(xv, bs) - low_bin_value) * (EPS_DEN \div g),
                         res \div g>>
        wh == w_high[1]
        den == w_high[2]
        wl == den - wh
    IN  [den |-> den,
         num |-> [k \in 0..(Len(bs) - 1) |->
                    (IF k = lo THEN wl ELSE 0) + (IF k = hi THEN wh ELSE 0)]]

splat_non_uniform(xs, bs, res) ==
    [status |-> "ok",
     shape  |-> <<Len(xs), Len(bs)>>,
     rows   |-> [b \in 1..Len(xs) |-> splat_row(xs[b], bs, res)]]

(***************************************************************************)
(* Specification of splat_non_uniform.                                     *)
(***************************************************************************)
MaxBins == 3

MaxBinValue == 4

MaxSplatBatch == 2

\* The units of the inputs: 1, and 2^-30 (adjacent multiples are then
\* 9.3e-10 apart, less than EPS; two apart is more than EPS).
Resolutions == {1, 2^30}

\* "The values in the bins must be sorted from small to large."
SortedBins ==
    {bs \in UNION {[1..n -> 0..MaxBinValue] : n \in 1..MaxBins} :
        \A k \in 1..(Len(bs) - 1) : bs[k] <= bs[k + 1]}

InitSplat ==
    /\ pc = "splat_non_uniform"
    /\ rgb_edge = NoValue
    /\ resolution \in Resolutions
    /\ bins \in SortedBins
    /\ x \in UNION {[1..B -> (-1)..(MaxBinValue + 1)] : B \in 1..MaxSplatBatch}
    /\ extended_features = NoValue
    /\ rgb = NoValue /\ params = NoValue /\ histogram = NoValue
    /\ h = NoValue /\ uv = NoValue /\ grid = NoValue
    /\ pmf = NoValue /\ fit = NoValue /\ est = NoValue

SplatNonUniform ==
    /\ pc = "splat_non_uniform"
    /\ extended_features' = splat_non_uniform(x, bins, resolution)
    /\ pc' = "done"
    /\ UNCHANGED <<rgb_edge, rgb, params, histogram, x, bins, resolution, h, uv, grid, pmf, fit, est>>

NextSplat == SplatNonUniform

SpecSplat == InitSplat /\ [][NextSplat]_vars

SplatDone == pc = "done" /\ extended_features.status = "ok"

StrictlyIncreasing(bs) == \A k \in 1..(Len(bs) - 1) : bs[k] < bs[k + 1]

BinIdx == 0..(Len(bins) - 1)

\* x clamped into [min(bins), max(bins)], stated without the model's x_clamp
Clamped(xv, bs) ==
    IF xv < SeqMin(bs) THEN SeqMin(bs) ELSE IF xv > SeqMax(bs) THEN SeqMax(bs) ELSE xv

\* The two bins selected for x[b] differ by less than EPS.
BelowEPS(b) ==
    RationalLess(BinAt(bins, idx_hi(x[b], bins)) - BinAt(bins, idx_lo(x[b], bins)),
                 resolution, 1, EPS_DEN)

\* C4: for strictly increasing bins with at least two entries, each weight
\* row sums to 1, its weighted sum of bin values is x clamped into
\* [min(bins), max(bins)], and all its entries outside two adjacent bins are 0.
C4_SplatReconstructs ==
    (SplatDone /\ StrictlyIncreasing(bins) /\ Len(bins) >= 2) =>
        \A b \in DOMAIN x :
            LET row == extended_features.rows[b]
            IN  /\ SumOver(row.num, BinIdx) = row.den
                /\ SumOver([k \in BinIdx |-> row.num[k] * BinAt(bins, k)], BinIdx)
                      = row.den * Clamped(x[b], bins)
                /\ \E k \in 0..(Len(bins) - 2) :
                      \A j \in BinIdx \ {k, k + 1} : row.num[j] = 0

\* Rows were computed for strictly increasing bins and a value at or beyond
\* the upper of two selected bins that differ by less than EPS.
C4_Witness ==
    /\ SplatDone /\ StrictlyIncreasing(bins) /\ Len(bins) >= 2
    /\ \E b \in DOMAIN x :
          /\ BelowEPS(b)
          /\ Clamped(x[b], bins) = BinAt(bins, idx_hi(x[b], bins))

\* C5: for strictly increasing bins the clamped value lies between the two
\* selected bin values and every weight lies in [0, 1].
C5_SplatInterpolates ==
    (SplatDone /\ StrictlyIncreasing(bins)) =>
        \A b \in DOMAIN x :
            LET row == extended_features.rows[b]
                c == Clamped(x[b], bins)
            IN  /\ BinAt(bins, idx_lo(x[b], bins)) <= c
                /\ c <= BinAt(bins, idx_hi(x[b], bins))
                /\ \A k \in BinIdx : 0 <= row.num[k] /\ row.num[k] <= row.den

(***************************************************************************)
(* softmax2.                                                               *)
(*                                                                         *)
(* h is a tensor [shape, data]: data holds the entries in row-major order, *)
(* each an integer number of ln 2, so that exp(h) = 2^h.  A PMF is a       *)
(* record [status, shape, num, den]: the entry [b, r, c] is                *)
(* num[b][r][c] / den[b], with b from 1 and r, c from 0.                   *)
(***************************************************************************)
RECURSIVE Pow2(_)
Pow2(k) == IF k = 0 THEN 1 ELSE 2 * Pow2(k - 1)

RECURSIVE Prod(_)
Prod(s) == IF s = <<>> THEN 1 ELSE Head(s) * Prod(Tail(s))

\* tf.reshape(tf.nn.softmax(tf.reshape(h, [-1, width * height])),
\*            [-1, height, width]) of a rank-3 tensor
softmax_rows(t) ==
    LET height == t.shape[2]
        width == t.shape[3]
        \* row b of the reshaped tensor holds the entries
        \* (b - 1) * width * height + 1 .. b * width * height of data
        rows == Len(t.data) \div (width * height)
        flat(b, k) == t.data[(b - 1) * width * height + k + 1]
        \* tf.nn.softmax: exp(h) / reduce_sum(exp(h)) along the last axis
        expsum == [b \in 1..rows |->
                     SumOver([k \in 0..(width * height - 1) |-> Pow2(flat(b, k))],
                             0..(width * height - 1))]
    IN  [status |-> "ok",
         shape  |-> <<rows, height, width>>,
         num    |-> [b \in 1..rows |-> [r \in 0..(height - 1) |->
                      [c \in 0..(width - 1) |-> Pow2(flat(b, r * width + c))]]],
         den    |-> expsum]

\* softmax2 with a check that the score surface is square added.
softmax2_square_only(t) ==
    IF Len(t.shape) # 3 \/ t.shape[2] # t.shape[3]
    THEN [status |-> "ValueError"]
    ELSE softmax_rows(t)

softmax2(t) ==
    LET ndims == Len(t.shape)
    IN  IF ndims # 3
        THEN [status |-> "ValueError"]
        ELSE softmax_rows(t)

(***************************************************************************)
(* Specification of softmax2.                                              *)
(***************************************************************************)
MaxRank == 4

MaxDim == 2

MaxElems == 4

MaxLogit == 1

TensorShapes ==
    {s \in UNION {[1..r -> 1..MaxDim] : r \in 1..MaxRank} : Prod(s) <= MaxElems}

Tensors ==
    UNION {{[shape |-> s, data |-> d] : d \in [1..Prod(s) -> 0..MaxLogit]} :
              s \in TensorShapes}

InitSoftmax ==
    /\ pc = "softmax2"
    /\ rgb_edge = NoValue
    /\ resolution = NoValue
    /\ h \in Tensors
    /\ pmf = NoValue
    /\ rgb = NoValue /\ params = NoValue /\ histogram = NoValue
    /\ x = NoValue /\ bins = NoValue /\ extended_features = NoValue
    /\ uv = NoValue /\ grid = NoValue /\ fit = NoValue /\ est = NoValue

Softmax2 ==
    /\ pc = "softmax2"
    /\ pmf' = softmax2(h)
    /\ pc' = "done"
    /\ UNCHANGED <<rgb_edge, rgb, params, histogram, x, bins, resolution, extended_features, h, uv,
                   grid, fit, est>>

NextSoftmax == Softmax2

SpecSoftmax == InitSoftmax /\ [][NextSoftmax]_vars

SoftmaxDone == pc = "done" /\ pmf.status # "none"

\* The record p is a PMF of shape shp: entries >= 0, every slice sums to 1.
IsPMF(p, shp) ==
    /\ p.status = "ok"
    /\ p.shape = shp
    /\ \A b \in 1..shp[1] :
          LET cells == (0..(shp[2] - 1)) \X (0..(shp[3] - 1))
          IN  /\ \A cell \in cells : p.num[b][cell[1]][cell[2]] >= 0
              /\ SumOver([cell \in cells |-> p.num[b][cell[1]][cell[2]]], cells)
                    = p.den[b]

\* C7 as stated: softmax2 fails for every input that is not rank 3 and for
\* every rank-3 input whose height differs from its width, and returns a PMF
\* for rank-3 square inputs.
C7_FailsUnlessSquare ==
    SoftmaxDone =>
        IF Len(h.shape) # 3 \/ h.shape[2] # h.shape[3]
        THEN pmf.status = "ValueError"
        ELSE IsPMF(pmf, h.shape)

\* C7 amended: softmax2 fails with a ValueError for every input that is not
\* rank 3, and returns a PMF of the input's shape for every rank-3 input,
\* square or not.
C7_FailsUnlessRank3 ==
    SoftmaxDone =>
        IF Len(h.shape) # 3
        THEN pmf.status = "ValueError"
        ELSE IsPMF(pmf, h.shape)

\* softmax2 has run on a rank-3 input whose height differs from its width
\* and whose scores are not all equal.
C7_Witness ==
    /\ SoftmaxDone
    /\ Len(h.shape) = 3 /\ h.shape[2] # h.shape[3]
    /\ \E i, j \in DOMAIN h.data : h.data[i] # h.data[j]

(***************************************************************************)
(* Exact trigonometry for bivariate_von_mises.                             *)
(*                                                                         *)
(* A number a + b*sqrt(3) is the pair <<a, b>>.  Angles are counted in     *)
(* 24ths of a turn (15 degrees).                                           *)
(***************************************************************************)
SAdd(p, q) == <<p[1] + q[1], p[2] + q[2]>>

SNeg(p) == <<-p[1], -p[2]>>

SScale(k, p) == <<k * p[1], k * p[2]>>

SMul(p, q) == <<p[1] * q[1] + 3 * p[2] * q[2], p[1] * q[2] + p[2] * q[1]>>

\* The sign of a + b*sqrt(3): -1, 0 or 1.
SSign(p) ==
    LET a == p[1]
        b == p[2]
    IN  IF a = 0 /\ b = 0 THEN 0
        ELSE IF a >= 0 /\ b >= 0 THEN 1
        ELSE IF a <= 0 /\ b <= 0 THEN -1
        ELSE IF a > 0 THEN (IF a * a > 3 * b * b THEN 1 ELSE -1)
        ELSE (IF 3 * b * b > a * a THEN 1 ELSE -1)

RECURSIVE SSum(_, _)
SSum(f, S) ==
    IF S = {} THEN <<0, 0>>
    ELSE LET k == CHOOSE e \in S : TRUE IN SAdd(f[k], SSum(f, S \ {k}))

\* 2 * cos(m * 30 degrees) for m = 0..11 (entry m + 1).
TwoCos12 == << <<2, 0>>, <<0, 1>>, <<1, 0>>, <<0, 0>>, <<-1, 0>>, <<0, -1>>,
               <<-2, 0>>, <<0, -1>>, <<-1, 0>>, <<0, 0>>, <<1, 0>>, <<0, 1>> >>

\* Grid sizes whose bin angles i * 2 pi / size are multiples of 30 degrees.
Sizes == {1, 2, 3, 4, 6}

\* 2 * tf.cos(angles)[i] and 2 * tf.sin(angles)[i], angles[i] = i * 2 pi / size
two_cos(size, i) == TwoCos12[(((12 \div size) * i) % 12) + 1]

two_sin(size, i) == TwoCos12[(((12 \div size) * i - 3) % 12) + 1]

\* A vector <<x, y>> pointing in the direction k * 15 degrees, k in 0..23:
\* the directions 0, 15, ..., 75 degrees, turned by quarter turns.
DirBase == << <<<<1, 0>>, <<0, 0>>>>, <<<<2, 1>>, <<1, 0>>>>, <<<<0, 1>>, <<1, 0>>>>,
              <<<<1, 0>>, <<1, 0>>>>, <<<<1, 0>>, <<0, 1>>>>, <<<<1, 0>>, <<2, 1>>>> >>

RECURSIVE Turn(_, _)
Turn(v, quarters) ==
    IF quarters = 0 THEN v ELSE Turn(<<SNeg(v[2]), v[1]>>, quarters - 1)

Dir24(k) == Turn(DirBase[(k % 6) + 1], (k % 24) \div 6)

\* tf.atan2(y, x), in 24ths of a turn within -11..12, of a vector whose
\* direction is a multiple of 15 degrees; atan2(0, 0) = 0.
Atan2(y, xx) ==
    IF SSign(y) = 0 /\ SSign(xx) = 0 THEN 0
    ELSE CHOOSE k \in (-11)..12 :
            LET d == Dir24(k)
            IN  /\ SSign(SAdd(SMul(d[1], y), SNeg(SMul(d[2], xx)))) = 0
                /\ SSign(SAdd(SMul(d[1], xx), SMul(d[2], y))) = 1

(***************************************************************************)
(* bivariate_von_mises.                                                    *)
(*                                                                         *)
(* The result holds, per batch element, mu_idx as a pair of rationals and  *)
(* sigma_idx as a 2x2 matrix of rationals.                                 *)
(***************************************************************************)
\* tf.reduce_sum(pmf, axis=2) and tf.reduce_sum(pmf, axis=1) of slice b
\* (numerators over p.den[b])
sum_u(p, b) ==
    [r \in 0..(p.shape[2] - 1) |->
        SumOver([c \in 0..(p.shape[3] - 1) |-> p.num[b][r][c]], 0..(p.shape[3] - 1))]

sum_v(p, b) ==
    [c \in 0..(p.shape[3] - 1) |->
        SumOver([r \in 0..(p.shape[2] - 1) |-> p.num[b][r][c]], 0..(p.shape[2] - 1))]

\* tf.math.mod(angle, two_pi) dropped: the angle as atan2 returns it.
wrap_two_pi_missing(angle) == angle

\* tf.math.mod(angle, two_pi)
wrap_two_pi(angle) == angle % 24

\* The arithmetic mean of the bin indices as an angle (no sine or cosine).
mean_angle_euclidean(marginal, size) ==
    (SumOver([i \in 0..(size - 1) |-> marginal[i] * i * 24], 0..(size - 1))
        \div (size * SumOver(marginal, 0..(size - 1)))) % 24

\* mod(atan2(expected_sin, expected_cos), two_pi) of one marginal, where
\* expected_cos = reduce_sum(marginal * cos_angles) and likewise expected_sin
\* (both scaled here by the positive factor 2 * den, which atan2 ignores)
mean_angle(marginal, size) ==
    LET expected_cos == SSum([i \in 0..(size - 1) |->
                                SScale(marginal[i], two_cos(size, i))], 0..(size - 1))
        expected_sin == SSum([i \in 0..(size - 1) |->
                                SScale(marginal[i], two_sin(size, i))], 0..(size - 1))
    IN  wrap_two_pi(Atan2(expected_sin, expected_cos))

\* bins - mu + size / 2 as it is, not reduced modulo size.
wrapped_raw(i, mu24, size) == 24 * i - mu24 + 12 * size

\* wrap(bins - mu)[i] = mod(i - mu + size / 2, size), in 24ths of a bin,
\* for mu = mu24 / 24
wrapped(i, mu24, size) == (24 * i - mu24 + 12 * size) % (24 * size)

\* tf.debugging.assert_near(sums, 1, atol=1e-4): 1e-4 = 1 / ATOL_DEN
ATOL_DEN == 10000

\* Its rtol is left at the default, 10 * eps of float32: eps = 2^-23 =
\* 1 / FLOAT32_EPS_DEN.
RTOL_EPS == 10

FLOAT32_EPS_DEN == 8388608

\* assert_near passes when |sums - 1| < atol + rtol * |1| in every slice:
\* with excess = |sums - 1| - atol as excess_num / (den * ATOL_DEN), when
\* excess <= 0 or excess_num / den < RTOL_EPS * ATOL_DEN / FLOAT32_EPS_DEN
sums_near_one(p) ==
    \A b \in 1..p.shape[1] :
        LET total == SumOver(sum_u(p, b), 0..(p.shape[2] - 1))
            excess_num == Abs(total - p.den[b]) * ATOL_DEN - p.den[b]
        IN  \/ excess_num <= 0
            \/ RationalLess(excess_num, p.den[b],
                            RTOL_EPS * ATOL_DEN, FLOAT32_EPS_DEN)

\* The coarsest unit, in 24ths of a bin, of which the two means (and so all
\* wrapped distances of both axes) are whole multiples.  Moments are summed
\* in this unit, which keeps the products small.
CommonUnit(m_u24, m_v24) ==
    CHOOSE g \in {1, 2, 3, 4, 6, 12} :
        /\ m_u24 % g = 0 /\ m_v24 % g = 0
        /\ \A k \in {1, 2, 3, 4, 6, 12} :
              (m_u24 % k = 0 /\ m_v24 % k = 0) => k <= g

\* mu and sigma of slice b of a square PMF
von_mises_slice(p, b) ==
    LET size == p.shape[2]
        idx == 0..(size - 1)
        su == Table(sum_u(p, b))
        sv == Table(sum_v(p, b))
        den == p.den[b]
        \* mu = mean_angle / angle_step, angle_step = 24 / size 24ths of a turn
        mu_u24 == mean_angle(su, size) * size
        mu_v24 == mean_angle(sv, size) * size
        unit == CommonUnit(mu_u24, mu_v24)
        per_bin == 24 \div unit
        u_wrapped == Table([i \in idx |-> wrapped(i, mu_u24, size) \div unit])
        v_wrapped == Table([i \in idx |-> wrapped(i, mu_v24, size) \div unit])
        \* expectations times per_bin * den, second moments times per_bin^2 * den
        u_expectation == SumOver([i \in idx |-> su[i] * u_wrapped[i]], idx)
        v_expectation == SumOver([i \in idx |-> sv[i] * v_wrapped[i]], idx)
        u_second == SumOver([i \in idx |-> su[i] * u_wrapped[i] * u_wrapped[i]], idx)
        v_second == SumOver([i \in idx |-> sv[i] * v_wrapped[i] * v_wrapped[i]], idx)
        \* matvec(matvec(pmf, u_wrapped, transpose_a=True), v_wrapped)
        uv_expectation ==
            SumOver([c \in idx |->
                        SumOver([r \in idx |-> p.num[b][r][c] * u_wrapped[r]], idx)
                            * v_wrapped[c]], idx)
        sden == per_bin * per_bin * den * den
        u_var == <<den * u_second - u_expectation * u_expectation, sden>>
        v_var == <<den * v_second - v_expectation * v_expectation, sden>>
        uv_covar == <<den * uv_expectation - u_expectation * v_expectation, sden>>
    IN  [mu    |-> << <<mu_u24, 24>>, <<mu_v24, 24>> >>,
         sigma |-> << <<u_var, uv_covar>>, <<uv_covar, v_var>> >>]

bivariate_von_mises(p) ==
    IF Len(p.shape) # 3 \/ p.shape[2] # p.shape[3] \/ ~sums_near_one(p)
    THEN [status |-> "InvalidArgumentError"]
    ELSE LET slices == Table([b \in 1..p.shape[1] |-> von_mises_slice(p, b)])
         IN  [status    |-> "ok",
              mu_idx    |-> [b \in 1..p.shape[1] |-> slices[b].mu],
              sigma_idx |-> [b \in 1..p.shape[1] |-> slices[b].sigma]]

(***************************************************************************)
(* Specification of bivariate_von_mises.                                   *)
(*                                                                         *)
(* A slice is one batch element of a PMF, [rows, cols, num, den].  The     *)
(* slices drawn are: all mass in one cell; mass split evenly between index *)
(* 0 and index size-1 of one axis (sizes from 3: in a grid of size 2 these *)
(* two bins are opposite on the circle, the expected sine and cosine are   *)
(* both 0 and the float32 result is decided by rounding alone); and, for   *)
(* the precondition, a slice that is not square and one of total mass 1/2. *)
(* For the second moments there are slices with mass in two cells, in the  *)
(* ratio 1:1 or 2:1, and slices of total mass 1 - 1e-4 and 1 + 1e-4, and   *)
(* of total mass a little further from 1, inside and outside the tolerance *)
(* of the precondition.                                                    *)
(***************************************************************************)
MaxPmfBatch == 1

OneCell(size, i0, j0) ==
    [rows |-> size, cols |-> size, den |-> 1,
     num |-> [r \in 0..(size - 1) |-> [c \in 0..(size - 1) |->
                IF r = i0 /\ c = j0 THEN 1 ELSE 0]]]

\* half of the mass in cell (0, j0) and half in cell (size-1, j0)
SplitRows(size, j0) ==
    [rows |-> size, cols |-> size, den |-> 2,
     num |-> [r \in 0..(size - 1) |-> [c \in 0..(size - 1) |->
                IF r \in {0, size - 1} /\ c = j0 THEN 1 ELSE 0]]]

\* half of the mass in cell (i0, 0) and half in cell (i0, size-1)
SplitCols(size, i0) ==
    [rows |-> size, cols |-> size, den |-> 2,
     num |-> [r \in 0..(size - 1) |-> [c \in 0..(size - 1) |->
                IF r = i0 /\ c \in {0, size - 1} THEN 1 ELSE 0]]]

HalfMass(size) ==
    [rows |-> size, cols |-> size, den |-> 2,
     num |-> [r \in 0..(size - 1) |-> [c \in 0..(size - 1) |->
                IF r = 0 /\ c = 0 THEN 1 ELSE 0]]]

NotSquare(size) ==
    [rows |-> size, cols |-> size + 1, den |-> 1,
     num |-> [r \in 0..(size - 1) |-> [c \in 0..size |->
                IF r = 0 /\ c = 0 THEN 1 ELSE 0]]]

\* mass m / (m + 1) in cell (0, 0) and mass 1 / (m + 1) in cell (i2, j2)
TwoCells(size, m, i2, j2) ==
    [rows |-> size, cols |-> size, den |-> m + 1,
     num |-> [r \in 0..(size - 1) |-> [c \in 0..(size - 1) |->
                (IF r = 0 /\ c = 0 THEN m ELSE 0)
                  + (IF r = i2 /\ c = j2 THEN 1 ELSE 0)]]]

\* all mass in cell (size-1, 0), the total being 1 + diff / ATOL_DEN
NearOne(size, diff) ==
    [rows |-> size, cols |-> size, den |-> ATOL_DEN,
     num |-> [r \in 0..(size - 1) |-> [c \in 0..(size - 1) |->
                IF r = size - 1 /\ c = 0 THEN ATOL_DEN + diff ELSE 0]]]

\* all mass in cell (size-1, 0), the total being 1 + diff / den: for den =
\* 9900 it is further than atol from 1 and within atol + rtol, for den =
\* 9800 it is beyond atol + rtol
OffOne(size, den, diff) ==
    [rows |-> size, cols |-> size, den |-> den,
     num |-> [r \in 0..(size - 1) |-> [c \in 0..(size - 1) |->
                IF r = size - 1 /\ c = 0 THEN den + diff ELSE 0]]]

\* The mean direction of the marginal is a multiple of 15 degrees, the
\* directions Atan2 covers.
ExactMeanAngle(marginal, size) ==
    LET ec == SSum([i \in 0..(size - 1) |->
                      SScale(marginal[i], two_cos(size, i))], 0..(size - 1))
        es == SSum([i \in 0..(size - 1) |->
                      SScale(marginal[i], two_sin(size, i))], 0..(size - 1))
    IN  \E k \in (-11)..12 :
            /\ SSign(SAdd(SMul(Dir24(k)[1], es), SNeg(SMul(Dir24(k)[2], ec)))) = 0
            /\ SSign(SAdd(SMul(Dir24(k)[1], ec), SMul(Dir24(k)[2], es))) = 1

\* The two-cell slices whose second cell is not half a turn away from the
\* first on either axis (there float32 rounding decides the angle, as for
\* the split in a grid of size 2) and whose two mean angles are exact.
TwoCellSlices(size) ==
    {TwoCells(size, c[1], c[2], c[3]) :
        c \in {t \in {1, 2} \X (0..(size - 1)) \X (0..(size - 1)) :
                 /\ <<t[2], t[3]>> # <<0, 0>>
                 /\ 2 * t[2] # size /\ 2 * t[3] # size
                 /\ LET sl == TwoCells(size, t[1], t[2], t[3])
                    IN  /\ ExactMeanAngle([r \in 0..(size - 1) |->
                              SumOver(sl.num[r], 0..(size - 1))], size)
                        /\ ExactMeanAngle([k \in 0..(size - 1) |->
                              SumOver([r \in 0..(size - 1) |-> sl.num[r][k]],
                                      0..(size - 1))], size)}}

Slices(size) ==
    {OneCell(size, i0, j0) : i0 \in 0..(size - 1), j0 \in 0..(size - 1)}
      \cup (IF size >= 3
            THEN {SplitRows(size, j0) : j0 \in 0..(size - 1)}
                   \cup {SplitCols(size, i0) : i0 \in 0..(size - 1)}
            ELSE {})
      \cup {HalfMass(size), NotSquare(size)}
      \cup TwoCellSlices(size)
      \cup (IF size <= 4
            THEN {NearOne(size, diff) : diff \in {-1, 1}}
                   \cup {OffOne(size, den, diff) :
                            den \in {9800, 9900}, diff \in {-1, 1}}
            ELSE {})

\* The PMF tensor made of a batch of slices of one shape.
PmfOf(batch) ==
    [status |-> "ok",
     shape  |-> <<Len(batch), batch[1].rows, batch[1].cols>>,
     num    |-> [b \in 1..Len(batch) |-> batch[b].num],
     den    |-> [b \in 1..Len(batch) |-> batch[b].den]]

PmfInputs ==
    {PmfOf(batch) :
        batch \in {bt \in UNION {[1..B -> Slices(size)] :
                                     B \in 1..MaxPmfBatch, size \in Sizes} :
                     \A b \in DOMAIN bt : bt[b].cols = bt[1].cols}}

InitFit ==
    /\ pc = "bivariate_von_mises"
    /\ rgb_edge = NoValue
    /\ resolution = NoValue
    /\ pmf \in PmfInputs
    /\ fit = NoValue /\ est = NoValue
    /\ rgb = NoValue /\ params = NoValue /\ histogram = NoValue
    /\ x = NoValue /\ bins = NoValue /\ extended_features = NoValue
    /\ h = NoValue /\ uv = NoValue /\ grid = NoValue

BivariateVonMises ==
    /\ pc = "bivariate_von_mises"
    /\ fit' = bivariate_von_mises(pmf)
    /\ pc' = IF fit'.status = "ok" THEN "idx_to_uv" ELSE "done"
    /\ UNCHANGED <<rgb_edge, rgb, params, histogram, x, bins, resolution, extended_features, h, uv,
                   grid, pmf, est>>

NextFit == BivariateVonMises

SpecFit == InitFit /\ [][NextFit]_vars

FitDone == fit.status # "none"

\* The precondition of bivariate_von_mises: square, every slice of mass 1.
PmfWellFormed ==
    /\ pmf.status = "ok"
    /\ Len(pmf.shape) = 3 /\ pmf.shape[2] = pmf.shape[3]
    /\ \A b \in 1..pmf.shape[1] :
          SumOver(sum_u(pmf, b), 0..(pmf.shape[2] - 1)) = pmf.den[b]

\* All mass of slice b is in cell (i0, j0).
AllMassAt(b, i0, j0) ==
    \A r \in 0..(pmf.shape[2] - 1) : \A c \in 0..(pmf.shape[3] - 1) :
        pmf.num[b][r][c] = IF r = i0 /\ c = j0 THEN pmf.den[b] ELSE 0

ZeroMatrix(m) == \A i \in 1..2 : \A j \in 1..2 : m[i][j][1] = 0

\* C8: for a PMF with all mass in the single cell (i0, j0), at any place
\* of the grid, bivariate_von_mises returns mu = (i0, j0) and sigma = 0.
C8_SingleCell ==
    (FitDone /\ PmfWellFormed) =>
        /\ fit.status = "ok"
        /\ \A b \in 1..pmf.shape[1] :
              \A i0 \in 0..(pmf.shape[2] - 1) : \A j0 \in 0..(pmf.shape[3] - 1) :
                  AllMassAt(b, i0, j0) =>
                      /\ REq(fit.mu_idx[b][1], <<i0, 1>>)
                      /\ REq(fit.mu_idx[b][2], <<j0, 1>>)
                      /\ ZeroMatrix(fit.sigma_idx[b])

\* The fit has run on a PMF with all mass in a cell of the last row, off
\* the diagonal, in a grid of at least 3 bins.
C8_Witness ==
    /\ FitDone /\ PmfWellFormed /\ pmf.shape[2] >= 3
    /\ \E j0 \in 0..(pmf.shape[3] - 2) : AllMassAt(1, pmf.shape[2] - 1, j0)

\* The marginal has half of its mass at index 0 and half at index size-1.
SplitAtWrap(marginal, size, den) ==
    /\ size >= 3
    /\ 2 * marginal[0] = den /\ 2 * marginal[size - 1] = den

\* mu = size - 1/2, which lies in [0, size) and is not (size - 1) / 2
AtWrapBoundary(m, size) ==
    /\ REq(m, <<2 * size - 1, 2>>)
    /\ 0 <= m[1] /\ m[1] < size * m[2]
    /\ ~REq(m, <<size - 1, 2>>)

\* C9: when the mass is split evenly between index 0 and index nbins-1 of
\* one axis, the mean of that axis is nbins - 1/2: at the wrap boundary,
\* inside [0, nbins), and not the Euclidean mean (nbins-1)/2.
C9_WrapBoundaryMean ==
    (FitDone /\ PmfWellFormed) =>
        /\ fit.status = "ok"
        /\ \A b \in 1..pmf.shape[1] :
              LET size == pmf.shape[2]
              IN  /\ SplitAtWrap(sum_u(pmf, b), size, pmf.den[b])
                        => AtWrapBoundary(fit.mu_idx[b][1], size)
                  /\ SplitAtWrap(sum_v(pmf, b), size, pmf.den[b])
                        => AtWrapBoundary(fit.mu_idx[b][2], size)

\* The fit has run on a PMF whose mass is split evenly between the first
\* and the last index of the second axis.
C9_Witness ==
    /\ FitDone /\ PmfWellFormed
    /\ SplitAtWrap(sum_v(pmf, 1), pmf.shape[2], pmf.den[1])
    /\ fit.status = "ok"

\* The signed wrapped distance ((bin - mu + size/2) mod size) - size/2 of
\* bin i to mu = mu24 / 24, in 24ths of a bin; it lies in [-size/2, size/2).
delta_wrapped(i, mu24, size) ==
    ((24 * i - mu24 + 12 * size) % (24 * size)) - 12 * size

\* Equality of two rationals, without products when the denominators agree.
SameRational(p, q) == IF p[2] = q[2] THEN p[1] = q[1] ELSE REq(p, q)

\* The 2x2 matrix of the moments of the distances delta_wrapped + shift24
\* under slice b of pmf, with mu as returned in fit: E[d^2] - E[d]^2 on each
\* axis and E[du*dv] - E[du]*E[dv], every expectation a sum over the cells
\* of p[r][c] times the distances of row r and column c.
WrappedMoments(b, shift24) ==
    LET size == pmf.shape[2]
        den == pmf.den[b]
        m_u == fit.mu_idx[b][1][1]
        m_v == fit.mu_idx[b][2][1]
        g == CommonUnit(m_u, m_v)
        k == 24 \div g
        cells == (0..(size - 1)) \X (0..(size - 1))
        P(cell) == pmf.num[b][cell[1]][cell[2]]
        du(cell) == (delta_wrapped(cell[1], m_u, size) + shift24) \div g
        dv(cell) == (delta_wrapped(cell[2], m_v, size) + shift24) \div g
        Eu == SumOver([cell \in cells |-> P(cell) * du(cell)], cells)
        Ev == SumOver([cell \in cells |-> P(cell) * dv(cell)], cells)
        Euu == SumOver([cell \in cells |-> P(cell) * du(cell) * du(cell)], cells)
        Evv == SumOver([cell \in cells |-> P(cell) * dv(cell) * dv(cell)], cells)
        Euv == SumOver([cell \in cells |-> P(cell) * du(cell) * dv(cell)], cells)
        var_u == <<den * Euu - Eu * Eu, k * k * den * den>>
        var_v == <<den * Evv - Ev * Ev, k * k * den * den>>
        cov == <<den * Euv - Eu * Ev, k * k * den * den>>
    IN  << <<var_u, cov>>, <<cov, var_v>> >>

SameMatrix(m, w) ==
    \A i \in 1..2 : \A j \in 1..2 : SameRational(m[i][j], w[i][j])

\* C11 as stated: for every PMF that passes the precondition (square, rank
\* 3, slice sums within 1e-4 of 1) the returned variances and covariance are
\* the moments of the signed wrapped distance.
C11_SignedMomentsWithinTolerance ==
    (/\ FitDone
     /\ Len(pmf.shape) = 3 /\ pmf.shape[2] = pmf.shape[3]
     /\ \A b \in 1..pmf.shape[1] :
           Abs(SumOver(sum_u(pmf, b), 0..(pmf.shape[2] - 1)) - pmf.den[b]) * ATOL_DEN
               <= pmf.den[b])
    =>  /\ fit.status = "ok"
        /\ \A b \in 1..pmf.shape[1] :
              SameMatrix(fit.sigma_idx[b], WrappedMoments(b, 0))

\* C11 amended: for every PMF that passes the precondition (square, rank 3,
\* slice sums less than 1e-4 + 10 * eps(float32) from 1) the returned
\* variances and covariance are the moments of the distance shifted by
\* size/2, (bin - mu + size/2) mod size in [0, size); they are the moments
\* of the signed wrapped distance when every slice sums to exactly 1.
C11_SignedMomentsWhenNormalised ==
    /\ (FitDone /\ fit.status = "ok") =>
          \A b \in 1..pmf.shape[1] :
              SameMatrix(fit.sigma_idx[b], WrappedMoments(b, 12 * pmf.shape[2]))
    /\ (FitDone /\ PmfWellFormed) =>
          /\ fit.status = "ok"
          /\ \A b \in 1..pmf.shape[1] :
                SameMatrix(fit.sigma_idx[b], WrappedMoments(b, 0))

\* The fit has run on a PMF of total mass 1 with mass on both sides of the
\* wrap boundary of the first axis (mu beyond the last bin), a mean that is
\* not on a bin and a covariance that is not 0.
C11_Witness ==
    /\ FitDone /\ PmfWellFormed /\ fit.status = "ok"
    /\ pmf.shape[2] >= 3
    /\ fit.mu_idx[1][1][1] > 24 * (pmf.shape[2] - 1)
    /\ fit.sigma_idx[1][1][2][1] # 0
    /\ fit.sigma_idx[1][1][1][1] # fit.sigma_idx[1][2][2][1]

(***************************************************************************)
(* uv_to_pmf and idx_to_uv.                                                *)
(*                                                                         *)
(* uv is a batch of labels <<u, v>> (shape [batch_size, 2]); labels,       *)
(* step_size and offset are integers.  g is the grid [step_size, offset,   *)
(* n], with n >= 1 bins per axis.                                          *)
(***************************************************************************)
uv_min(g) == g.offset

uv_max(g) == g.offset + (g.n - 1) * g.step_size

\* tf.stack([batch_idx, uv_idx[:, 0], uv_idx[:, 1]]): row and column of the
\* cell a weight is scattered to
scatter_index(iu, iv) == <<iu, iv>>

\* uv_idx_lo = floor((uv - offset) / step_size) of one label
uv_idx_lo(lab, g) ==
    <<(lab[1] - g.offset) \div g.step_size, (lab[2] - g.offset) \div g.step_size>>

\* uv_idx_hi = tf.math.mod(uv_idx_lo + 1, n)
uv_idx_hi(lab, g) ==
    <<(uv_idx_lo(lab, g)[1] + 1) % g.n, (uv_idx_lo(lab, g)[2] + 1) % g.n>>

\* idx_00, idx_01, idx_10, idx_11 of one label (the batch index left out)
sparse_indices(lab, g) ==
    LET lo == uv_idx_lo(lab, g)
        hi == uv_idx_hi(lab, g)
    IN  <<scatter_index(lo[1], lo[2]), scatter_index(lo[1], hi[2]),
          scatter_index(hi[1], lo[2]), scatter_index(hi[1], hi[2])>>

\* tf.sparse.to_dense checks its indices and raises when one is repeated.
\* The indices of two labels differ in the batch index, so a repeat lies
\* among the four of one label: for n = 1, where mod(uv_idx_lo + 1, 1) is
\* uv_idx_lo itself.
repeated_indices(lab, g) ==
    \E i, j \in 1..4 : i < j /\ sparse_indices(lab, g)[i] = sparse_indices(lab, g)[j]

\* The n x n slice of one label inside [uv_min, uv_max], whose four indices
\* are distinct: numerators over step_size^2.
label_slice(lab, g) ==
    LET \* uv_idx = (uv - offset) / step_size, as a numerator over step_size
        uv_idx == <<lab[1] - g.offset, lab[2] - g.offset>>
        lo == uv_idx_lo(lab, g)
        idx == sparse_indices(lab, g)
        \* w_1 = uv_idx - uv_idx_lo and w_0 = 1 - w_1, numerators over step_size
        w_1 == <<uv_idx[1] - lo[1] * g.step_size,
                 uv_idx[2] - lo[2] * g.step_size>>
        w_0 == <<g.step_size - w_1[1], g.step_size - w_1[2]>>
        entries == {<<idx[1], w_0[1] * w_0[2]>>,
                    <<idx[2], w_0[1] * w_1[2]>>,
                    <<idx[3], w_1[1] * w_0[2]>>,
                    <<idx[4], w_1[1] * w_1[2]>>}
    IN  \* tf.sparse.to_dense: the four values at their indices, the rest is 0
        [r \in 0..(g.n - 1) |-> [c \in 0..(g.n - 1) |->
            IF \E e \in entries : e[1] = <<r, c>>
            THEN (CHOOSE e \in entries : e[1] = <<r, c>>)[2]
            ELSE 0]]

\* tf.clip_by_value(uv, offset, uv_max)
clip_by_value(lab, g) ==
    <<Min2(Max2(lab[1], uv_min(g)), uv_max(g)), Min2(Max2(lab[2], uv_min(g)), uv_max(g))>>

uv_to_pmf(labels, g) ==
    LET below == \E b \in DOMAIN labels : \E k \in 1..2 : labels[b][k] < uv_min(g)
        above == \E b \in DOMAIN labels : \E k \in 1..2 : labels[b][k] > uv_max(g)
    IN  IF below
        THEN \* uv = tf.cond(.., uv_fmin, ..) is what tf.print returns, not a
             \* tensor: the warning is printed, and uv > uv_max raises
             [status |-> "TypeError", warned |-> TRUE]
        ELSE IF above
        THEN \* likewise for uv_fmax; tf.clip_by_value(uv, ..) raises
             [status |-> "ValueError", warned |-> TRUE]
        ELSE IF \E b \in DOMAIN labels : repeated_indices(clip_by_value(labels[b], g), g)
        THEN \* tf.sparse.to_dense(tf.sparse.reorder(sparse)) raises
             [status |-> "InvalidArgumentError", warned |-> FALSE]
        ELSE [status |-> "ok",
              warned |-> FALSE,
              shape  |-> <<Len(labels), g.n, g.n>>,
              num    |-> [b \in 1..Len(labels) |->
                            label_slice(clip_by_value(labels[b], g), g)],
              den    |-> [b \in 1..Len(labels) |-> g.step_size * g.step_size]]

\* mu = mu_idx * step_size + offset, sigma = sigma_idx * step_size^2
idx_to_uv(f, step_size, offset) ==
    [status |-> "ok",
     mu     |-> [b \in DOMAIN f.mu_idx |->
                  [k \in 1..2 |-> <<f.mu_idx[b][k][1] * step_size
                                      + offset * f.mu_idx[b][k][2],
                                    f.mu_idx[b][k][2]>>]],
     sigma  |-> [b \in DOMAIN f.sigma_idx |->
                  [i \in 1..2 |-> [j \in 1..2 |->
                      <<f.sigma_idx[b][i][j][1] * step_size * step_size,
                        f.sigma_idx[b][i][j][2]>>]]]]

(***************************************************************************)
(* Specification of the label round trip                                   *)
(*     idx_to_uv(bivariate_von_mises(uv_to_pmf(uv, ..)), ..).              *)
(*                                                                         *)
(* With step_size 1 every label in range is a grid point; with step_size 2 *)
(* the labels in range are the grid points and the points half way between *)
(* them.  On a grid of 2 bins only the grid points are drawn: half way     *)
(* between them the two halves of the mass lie in opposite directions and  *)
(* the mean angle is the arctangent of two rounding errors (see the slices *)
(* of bivariate_von_mises).  Labels reach one unit beyond the range on both*)
(* sides.                                                                  *)
(***************************************************************************)
MaxLabelBatch == 1

Grids ==
    {[step_size |-> st, offset |-> off, n |-> n] :
        st \in {1, 2}, off \in {-3, 0, 1}, n \in Sizes}

Labels(g) ==
    {lab \in ((uv_min(g) - 1)..(uv_max(g) + 1)) \X ((uv_min(g) - 1)..(uv_max(g) + 1)) :
        g.n = 2 =>
            \A k \in 1..2 :
                \/ lab[k] < uv_min(g)
                \/ lab[k] > uv_max(g)
                \/ (lab[k] - g.offset) % g.step_size = 0}

InitLabel ==
    /\ pc = "uv_to_pmf"
    /\ rgb_edge = NoValue
    /\ resolution = NoValue
    /\ grid \in Grids
    /\ uv \in UNION {[1..B -> Labels(grid)] : B \in 1..MaxLabelBatch}
    /\ pmf = NoValue /\ fit = NoValue /\ est = NoValue
    /\ rgb = NoValue /\ params = NoValue /\ histogram = NoValue
    /\ x = NoValue /\ bins = NoValue /\ extended_features = NoValue
    /\ h = NoValue

UvToPmf ==
    /\ pc = "uv_to_pmf"
    /\ pmf' = uv_to_pmf(uv, grid)
    /\ pc' = IF pmf'.status = "ok" THEN "bivariate_von_mises" ELSE "done"
    /\ UNCHANGED <<rgb_edge, rgb, params, histogram, x, bins, resolution, extended_features, h, uv,
                   grid, fit, est>>

IdxToUv ==
    /\ pc = "idx_to_uv"
    /\ est' = idx_to_uv(fit, grid.step_size, grid.offset)
    /\ pc' = "done"
    /\ UNCHANGED <<rgb_edge, rgb, params, histogram, x, bins, resolution, extended_features, h, uv,
                   grid, pmf, fit>>

NextLabel == UvToPmf \/ BivariateVonMises \/ IdxToUv

SpecLabel == InitLabel /\ [][NextLabel]_vars

InRange(lab) ==
    \A k \in 1..2 : uv_min(grid) <= lab[k] /\ lab[k] <= uv_max(grid)

OnGridPoint(lab) ==
    InRange(lab) /\ \A k \in 1..2 : (lab[k] - grid.offset) % grid.step_size = 0

\* The label with each component moved to the nearest end of the range.
ClampedLabel(lab) ==
    [k \in 1..2 |-> IF lab[k] < uv_min(grid) THEN uv_min(grid)
                    ELSE IF lab[k] > uv_max(grid) THEN uv_max(grid) ELSE lab[k]]

\* C6: given a label outside [offset, offset + (n-1)*step_size], uv_to_pmf
\* does not abort: it warns and returns the PMF of the clamped label, of
\* total mass 1.
C6_ClampsOutOfRange ==
    (pmf.status # "none" /\ \E b \in DOMAIN uv : ~InRange(uv[b])) =>
        /\ pmf.status = "ok"
        /\ pmf.warned
        /\ \A b \in DOMAIN uv :
              /\ pmf.num[b] = label_slice(ClampedLabel(uv[b]), grid)
              /\ SumOver(sum_u(pmf, b), 0..(grid.n - 1)) = pmf.den[b]

\* C10: for every label on a grid point (offset + i*step_size,
\* offset + j*step_size), i, j in 0..n-1, the round trip returns mu equal to
\* the label, component by component, and sigma = 0.
C10_RoundTrip ==
    (pc = "done" /\ \A b \in DOMAIN uv : InRange(uv[b])) =>
        /\ est.status = "ok"
        /\ \A b \in DOMAIN uv :
              OnGridPoint(uv[b]) =>
                  /\ REq(est.mu[b][1], <<uv[b][1], 1>>)
                  /\ REq(est.mu[b][2], <<uv[b][2], 1>>)
                  /\ ZeroMatrix(est.sigma[b])

\* uv_to_pmf has run on the one grid point of a grid of a single bin.
C10_Witness ==
    /\ pc = "done" /\ pmf.status # "none"
    /\ grid.n = 1
    /\ OnGridPoint(uv[1])

(***************************************************************************)
(* edge_kernel and local_absolute_deviation.                               *)
(*                                                                         *)
(* rgb is one image of the batch (the convolution treats every image       *)
(* alone): [shape |-> <<height, width, 3>>, val |-> v] with v[i][j][c] the *)
(* integer value of channel c of the pixel in row i and column j, all      *)
(* indices from 0.  The result holds the numerators of the means over 8.   *)
(***************************************************************************)
\* The slot of the product index n with none skipped for the centre.
filter_slot_unshifted(n) == n

\* filter_index - i: the centre (index 4) takes no slot, the later offsets
\* move down by one
filter_slot(n) == IF n < 4 THEN n ELSE n - 1

\* filters[a][b][c][q] of edge_kernel(): 1 at the centre of all 8 filters,
\* -1 at [1 + dx, 1 + dy] in the filter of the offset (dx, dy), the offsets
\* taken in the order of itertools.product([-1, 0, 1], repeat=2)
edge_kernel ==
    [a \in 0..2 |-> [b \in 0..2 |-> [c \in 0..2 |-> [q \in 0..7 |->
        IF a = 1 /\ b = 1 THEN 1
        ELSE IF filter_slot(3 * a + b) = q THEN -1
        ELSE 0]]]]

\* The index into an axis of length n that mode='SYMMETRIC' reads for the
\* padded index i (i = -1 and i = n are the padding).
symmetric_index(i, n) ==
    IF i < 0 THEN -i - 1 ELSE IF i >= n THEN 2 * n - 1 - i ELSE i

\* rgb_padded[i][j][c], i in 0..height+1, j in 0..width+1
rgb_padded(img, i, j, c) ==
    img.val[symmetric_index(i - 1, img.shape[1])]
           [symmetric_index(j - 1, img.shape[2])][c]

\* tf.nn.depthwise_conv2d(rgb_padded, filters, padding='VALID'): the output
\* channel k * 8 + q is the input channel k under the filter q
depthwise_conv2d(img, filters, i, j, ch) ==
    LET k == ch \div 8
        q == ch % 8
        taps == (0..2) \X (0..2)
    IN  SumOver([t \in taps |->
                    rgb_padded(img, i + t[1], j + t[2], k) * filters[t[1]][t[2]][k][q]],
                taps)

local_absolute_deviation(img) ==
    LET height == img.shape[1]
        width == img.shape[2]
        edge_filters == Table(edge_kernel)
        \* reshaped to [height, width, 3, 8]
        filtered(i, j, c, q) == depthwise_conv2d(img, edge_filters, i, j, c * 8 + q)
    IN  [status |-> "ok",
         shape  |-> <<height, width, 3>>,
         den    |-> 8,
         num    |-> [i \in 0..(height - 1) |-> [j \in 0..(width - 1) |->
                      [c \in 0..2 |->
                          SumOver([q \in 0..7 |-> Abs(filtered(i, j, c, q))], 0..7)]]]]

(***************************************************************************)
(* Specification of local_absolute_deviation.                              *)
(*                                                                         *)
(* The images drawn have one value everywhere but in at most MaxLit        *)
(* entries (a pixel's channel), which hold any value.                      *)
(***************************************************************************)
MaxHeight == 2

MaxWidth == 2

MaxLit == 1

\* The values a channel of a pixel takes.
PixelValues == 0..2

Entries(height, width) == (0..(height - 1)) \X (0..(width - 1)) \X (0..2)

\* The image of value bg with the entries lit[k][1] set to lit[k][2], the
\* first k deciding for an entry named twice.
ImageOf(height, width, bg, lit) ==
    [shape |-> <<height, width, 3>>,
     val   |-> [i \in 0..(height - 1) |-> [j \in 0..(width - 1) |-> [c \in 0..2 |->
                  IF \E k \in DOMAIN lit : lit[k][1] = <<i, j, c>>
                  THEN lit[CHOOSE k \in DOMAIN lit :
                              /\ lit[k][1] = <<i, j, c>>
                              /\ \A m \in 1..(k - 1) : lit[m][1] # <<i, j, c>>][2]
                  ELSE bg]]]]

InitEdge ==
    /\ pc = "local_absolute_deviation"
    /\ \E hw \in (1..MaxHeight) \X (1..MaxWidth) : \E bg \in PixelValues :
          \E lit \in [1..MaxLit -> Entries(hw[1], hw[2]) \X PixelValues] :
              rgb = ImageOf(hw[1], hw[2], bg, lit)
    /\ rgb_edge = NoValue
    /\ resolution = NoValue
    /\ params = NoValue /\ histogram = NoValue
    /\ x = NoValue /\ bins = NoValue /\ extended_features = NoValue
    /\ h = NoValue /\ uv = NoValue /\ grid = NoValue
    /\ pmf = NoValue /\ fit = NoValue /\ est = NoValue

LocalAbsoluteDeviation ==
    /\ pc = "local_absolute_deviation"
    /\ rgb_edge' = local_absolute_deviation(rgb)
    /\ pc' = "done"
    /\ UNCHANGED <<rgb, params, histogram, x, bins, resolution, extended_features, h, uv,
                   grid, pmf, fit, est>>

NextEdge == LocalAbsoluteDeviation

SpecEdge == InitEdge /\ [][NextEdge]_vars

EdgeDone == pc = "done" /\ rgb_edge.status # "none"

\* The 8 offsets of a 3x3 window other than its centre.
NeighbourOffsets == ({-1, 0, 1} \X {-1, 0, 1}) \ {<<0, 0>>}

\* The index i moved into 0..n-1: outside the image the nearest edge pixel
\* is repeated.
EdgeRepeat(i, n) == IF i < 0 THEN 0 ELSE IF i > n - 1 THEN n - 1 ELSE i

\* The sum over the 8 neighbour offsets of |centre - neighbour| in channel c
\* at the pixel (i, j) of rgb.
NeighbourDeviation(i, j, c) ==
    SumOver([o \in NeighbourOffsets |->
                Abs(rgb.val[i][j][c]
                      - rgb.val[EdgeRepeat(i + o[1], rgb.shape[1])]
                               [EdgeRepeat(j + o[2], rgb.shape[2])][c])],
            NeighbourOffsets)

IsConstant(img) ==
    \A e \in Entries(img.shape[1], img.shape[2]) :
        img.val[e[1]][e[2]][e[3]] = img.val[0][0][0]

\* C12: the result has the shape of the input; at every pixel and channel it
\* is the mean over the 8 neighbour offsets, each used once, of
\* |centre - neighbour| with the edge pixels repeated outside the image; for
\* a constant image it is 0 everywhere.
C12_MeanNeighbourDeviation ==
    EdgeDone =>
        /\ rgb_edge.status = "ok"
        /\ rgb_edge.shape = rgb.shape
        /\ \A e \in Entries(rgb.shape[1], rgb.shape[2]) :
              /\ rgb_edge.num[e[1]][e[2]][e[3]] * 8
                    = NeighbourDeviation(e[1], e[2], e[3]) * rgb_edge.den
              /\ IsConstant(rgb) => rgb_edge.num[e[1]][e[2]][e[3]] = 0

\* The edge image was computed for an image of at least 2x2 pixels that is
\* not constant, and it is 0 in one channel of a pixel and not in another.
C12_Witness ==
    /\ EdgeDone
    /\ rgb.shape[1] >= 2 /\ rgb.shape[2] >= 2
    /\ ~IsConstant(rgb)
    /\ \E i \in 0..(rgb.shape[1] - 1) : \E j \in 0..(rgb.shape[2] - 1) :
          \E c, d \in 0..2 : rgb_edge.num[i][j][c] = 0 /\ rgb_edge.num[i][j][d] > 0

====
